---------------------------- MODULE Spec2Model ----------------------------
(***************************************************************************)
(* Scheduled-transaction recurrence engine of the finance backend.         *)
(*                                                                         *)
(* The stored rows (TransactionScheduled, Transaction), the clock of       *)
(* app/date_manager.py and the due-schedule selector                       *)
(* Repository.get_scheduled_transactions_by_frequency of app/repository.py *)
(* are modelled from the source.  The batch driver and the materializer    *)
(* (app/tasks.py is not part of the available sources) follow sections 4.4 *)
(* and 5 of the specification.                                             *)
(*                                                                         *)
(* A datetime is a record [year, month, day, hour, minute, second,         *)
(* microsecond]; a date (the value of SQL date(...)) is a record           *)
(* [year, month, day].  A Python call that may raise yields                *)
(* [ok |-> FALSE, ...] for the exception and [ok |-> TRUE, value |-> v]    *)
(* for the returned value.                                                 *)
(***************************************************************************)
EXTENDS Integers, FiniteSets, Sequences, TLC

VARIABLES
    schedules,      \* rows of table TransactionScheduled
    transactions,   \* rows of table Transaction
    now,            \* the current instant (UTC), a datetime
    elapsed,        \* clock steps taken since the start
    pc,             \* position of the batch driver
    run,            \* the batch run in progress
    session,        \* objects added to the database session and not yet committed
    pc2,            \* position of a second, overlapping batch driver
    run2,           \* the batch run of the second driver
    response,       \* outcome of the last call of a service or utility function
    queue           \* background tasks queued with .delay(...)

vars == <<schedules, transactions, now, elapsed, pc, run, session, pc2, run2,
          response, queue>>

\* What the batch drivers leave alone
io == <<response, queue>>

\* What a single batch driver with a commit after every save leaves alone
aux == <<session, pc2, run2, io>>

----------------------------------------------------------------------------
(* Frequency enum, app/utils/enums.py *)
ONCE == 1
DAILY == 2
WEEKLY == 3
MONTHLY == 4
YEARLY == 5

Frequency == {ONCE, DAILY, WEEKLY, MONTHLY, YEARLY}

(* Bounds of the model *)
MaxDays == 1             \* day changes of the clock after the start
MaxCalls == 2            \* stored Transactions up to which materialize is called directly;
                         \* pending objects, stored schedules, queued tasks and primary keys
                         \* up to which a service or utility function is called

WindowOffsets == {0, 1}  \* first and last day of a schedule, in days after the start

----------------------------------------------------------------------------
(* The proleptic Gregorian calendar of Python's datetime *)

IsLeap(y) == (y % 4 = 0 /\ y % 100 # 0) \/ y % 400 = 0

DaysInMonth(y, m) ==
    IF m = 2 THEN (IF IsLeap(y) THEN 29 ELSE 28)
    ELSE IF m \in {4, 6, 9, 11} THEN 30 ELSE 31

\* datetime(...) raises ValueError unless the fields name a calendar day
ValidDate(y, m, d) ==
    /\ y \in 1..9999
    /\ m \in 1..12
    /\ d \in 1..DaysInMonth(y, m)

\* datetime(y, m, d, h): minute, second and microsecond default to 0
DateTime(y, m, d, h) ==
    [year |-> y, month |-> m, day |-> d, hour |-> h,
     minute |-> 0, second |-> 0, microsecond |-> 0]

\* datetime.replace(year=y, month=m): a new datetime, or ValueError
Replace(dt, y, m) ==
    IF ValidDate(y, m, dt.day)
    THEN [ok |-> TRUE, value |-> [dt EXCEPT !.year = y, !.month = m]]
    ELSE [ok |-> FALSE, value |-> dt]

\* dt - timedelta(days=1)
PrevDay(dt) ==
    IF dt.day > 1 THEN [dt EXCEPT !.day = dt.day - 1]
    ELSE IF dt.month > 1
         THEN [dt EXCEPT !.month = dt.month - 1,
                         !.day = DaysInMonth(dt.year, dt.month - 1)]
         ELSE [dt EXCEPT !.year = dt.year - 1, !.month = 12, !.day = 31]

\* dt + timedelta(days=1)
NextDay(dt) ==
    IF dt.day < DaysInMonth(dt.year, dt.month) THEN [dt EXCEPT !.day = dt.day + 1]
    ELSE IF dt.month < 12
         THEN [dt EXCEPT !.month = dt.month + 1, !.day = 1]
         ELSE [dt EXCEPT !.year = dt.year + 1, !.month = 1, !.day = 1]

RECURSIVE MinusDays(_, _)
\* dt - timedelta(days=n)
MinusDays(dt, n) == IF n = 0 THEN dt ELSE MinusDays(PrevDay(dt), n - 1)

RECURSIVE PlusDays(_, _)
\* dt + timedelta(days=n)
PlusDays(dt, n) == IF n = 0 THEN dt ELSE PlusDays(NextDay(dt), n - 1)

\* Order of datetimes: a number that grows with (year, month, day, hour),
\* then the second within the hour, then the microsecond
Key(dt) == ((dt.year * 13 + dt.month) * 32 + dt.day) * 24 + dt.hour

SubKey(dt) == dt.minute * 60 + dt.second

DtLE(a, b) ==
    \/ Key(a) < Key(b)
    \/ /\ Key(a) = Key(b)
       /\ \/ SubKey(a) < SubKey(b)
          \/ /\ SubKey(a) = SubKey(b)
             /\ a.microsecond <= b.microsecond

\* SQL date(ts): the calendar day of a timestamp
date(ts) == [year |-> ts.year, month |-> ts.month, day |-> ts.day]

\* A date compared with a timestamp is taken at midnight
Midnight(d) == DateTime(d.year, d.month, d.day, 0)

----------------------------------------------------------------------------
(* app/date_manager.py *)

\* dt.replace(hour=0, minute=0, second=0, microsecond=0)
replace_midnight(dt) ==
    [dt EXCEPT !.hour = 0, !.minute = 0, !.second = 0, !.microsecond = 0]

\* today() that keeps minute, second and microsecond of the instant
today_keep_minutes == [now EXCEPT !.hour = 0]

\* today(): datetime.now(timezone.utc) with the time of day replaced by 0
today == replace_midnight(now)

----------------------------------------------------------------------------
(* app/repository.py, Repository.get_scheduled_transactions_by_frequency *)

\* get_period_start_date as a plausible slip: the week is added, not subtracted
get_period_start_date_future(frequency_id, today_) ==
    IF frequency_id \in {DAILY, ONCE} THEN [ok |-> TRUE, value |-> today_]
    ELSE IF frequency_id = WEEKLY THEN [ok |-> TRUE, value |-> PlusDays(today_, 7)]
    ELSE IF frequency_id = MONTHLY THEN Replace(today_, today_.year, today_.month - 1)
    ELSE IF frequency_id = YEARLY THEN Replace(today_, today_.year - 1, today_.month)
    ELSE [ok |-> TRUE, value |-> today_]

\* get_period_start_date as a plausible slip: ONCE is not in the first branch
\* and starts its period tomorrow
get_period_start_date_once(frequency_id, today_) ==
    IF frequency_id = DAILY THEN [ok |-> TRUE, value |-> today_]
    ELSE IF frequency_id = ONCE THEN [ok |-> TRUE, value |-> NextDay(today_)]
    ELSE IF frequency_id = WEEKLY THEN [ok |-> TRUE, value |-> MinusDays(today_, 7)]
    ELSE IF frequency_id = MONTHLY THEN Replace(today_, today_.year, today_.month - 1)
    ELSE Replace(today_, today_.year - 1, today_.month)

get_period_start_date(frequency_id, today_) ==
    IF frequency_id \in {DAILY, ONCE} THEN [ok |-> TRUE, value |-> today_]
    ELSE IF frequency_id = WEEKLY THEN [ok |-> TRUE, value |-> MinusDays(today_, 7)]
    ELSE IF frequency_id = MONTHLY THEN Replace(today_, today_.year, today_.month - 1)
    ELSE IF frequency_id = YEARLY THEN Replace(today_, today_.year - 1, today_.month)
    ELSE [ok |-> TRUE, value |-> today_]

\* transaction_exists_condition as a plausible slip: created_at is compared
\* with today without date(...)
transaction_exists_condition_no_date(s, today_, period_start) ==
    ~ \E t \in transactions :
        /\ t.scheduled_transaction_id = s.id
        /\ t.created_at = today_
        /\ DtLE(period_start, Midnight(date(t.created_at)))

\* transaction_exists_condition as a plausible slip: the subquery is not
\* correlated with the schedule
transaction_exists_condition_any(s, today_, period_start) ==
    ~ \E t \in transactions :
        /\ date(t.created_at) = date(today_)
        /\ DtLE(period_start, Midnight(date(t.created_at)))

\* The correlated NOT EXISTS subquery for the row s of TransactionScheduled
transaction_exists_condition(s, today_, period_start) ==
    ~ \E t \in transactions :
        /\ t.scheduled_transaction_id = s.id
        /\ date(t.created_at) = date(today_)
        /\ DtLE(period_start, Midnight(date(t.created_at)))

\* The WHERE clause as a plausible slip: date_end is not compared
DueRows_no_end(frequency_id, today_, period_start) ==
    { s \in schedules :
        /\ DtLE(s.date_start, today_)
        /\ s.is_active = TRUE
        /\ s.frequency_id = frequency_id
        /\ transaction_exists_condition(s, today_, period_start) }

\* The WHERE clause as a plausible slip: the NOT EXISTS condition is left out
DueRows_no_exists(frequency_id, today_, period_start) ==
    { s \in schedules :
        /\ DtLE(s.date_start, today_)
        /\ DtLE(today_, s.date_end)
        /\ s.is_active = TRUE
        /\ s.frequency_id = frequency_id }

\* The WHERE clause of the query
DueRows(frequency_id, today_, period_start) ==
    { s \in schedules :
        /\ DtLE(s.date_start, today_)
        /\ DtLE(today_, s.date_end)
        /\ s.is_active = TRUE
        /\ s.frequency_id = frequency_id
        /\ transaction_exists_condition(s, today_, period_start) }

\* The period start is computed while the query is built: its ValueError
\* leaves the method before the query is executed
get_scheduled_transactions_by_frequency(frequency_id, today_) ==
    LET p == get_period_start_date(frequency_id, today_)
    IN  IF p.ok
        THEN [ok |-> TRUE, rows |-> DueRows(frequency_id, today_, p.value)]
        ELSE [ok |-> FALSE, rows |-> {}]

----------------------------------------------------------------------------
(* tests/fixtures.py, fixture_test_account_scheduled_transaction_list *)

\* The NOT EXISTS subquery of the fixture: the creation day equals today
fixture_transaction_exists_condition(s, today_) ==
    ~ \E t \in transactions :
        /\ t.scheduled_transaction_id = s.id
        /\ date(t.created_at) = date(today_)

----------------------------------------------------------------------------
(* The stored rows *)

StartDates ==
    { DateTime(2023, 12, 31, 12), DateTime(2024, 2, 28, 12) }

\* The validity windows offered to a schedule created around day d0
Windows(d0) ==
    { w \in [date_start : {PlusDays(d0, k) : k \in WindowOffsets},
             date_end : {PlusDays(d0, k) : k \in WindowOffsets}] :
        DtLE(w.date_start, w.date_end) }

\* The value of a nullable foreign key that is not set (no row has id 0)
Null == 0

\* amount, reference and category of the schedules, as in the fixture
Information(i) ==
    IF i = 1 THEN [amount |-> 100, reference |-> "scheduled_transaction_daily", category_id |-> 1]
    ELSE [amount |-> 1000, reference |-> "scheduled_transaction_weekly", category_id |-> 1]

ScheduleRow(i, f, w, a, acc) ==
    [id |-> i, frequency_id |-> f, date_start |-> w.date_start,
     date_end |-> w.date_end, is_active |-> a, account_id |-> acc,
     amount |-> Information(i).amount, reference |-> Information(i).reference,
     category_id |-> Information(i).category_id, offset_account_id |-> Null]

\* A batch run: the selector call (frequency_id, today, ok, selected), the
\* schedules still to materialize (pending), what was stored when it started
\* (before, seen), the outcome of a persistence error (error), the selector
\* call repeated after the run (rerun) and, for a run started again after an
\* interruption, the selection of the first run and what it had left (resumed,
\* first, left), the schedules whose Transaction is saved and whose commit
\* is outstanding (saved), and the frequencies whose batch of today has run
\* (done)
\* No service or utility function has been called
NoResponse == [op |-> "none"]

NoRun == [frequency_id |-> ONCE, today |-> DateTime(1, 1, 1, 0), ok |-> TRUE,
          selected |-> {}, pending |-> {}, rerun |-> [ok |-> TRUE, rows |-> {}],
          before |-> 0, seen |-> {}, error |-> "none",
          resumed |-> FALSE, first |-> {}, left |-> {}, saved |-> {}, done |-> {}]

\* Schedule 1 has any frequency, window and is_active; schedule 2 is an active
\* schedule of any frequency on the same account, valid on the first two days
Init ==
    /\ now \in StartDates
    /\ elapsed = 0
    /\ \E f1 \in Frequency, f2 \in Frequency, w1 \in Windows(today), a1 \in BOOLEAN :
          schedules = { ScheduleRow(1, f1, w1, a1, 1),
                        ScheduleRow(2, f2, [date_start |-> today,
                                            date_end |-> NextDay(today)], TRUE, 1) }
    /\ transactions = {}
    /\ pc = "idle"
    /\ run = NoRun
    /\ session = {}
    /\ pc2 = "idle"
    /\ run2 = NoRun
    /\ response = NoResponse
    /\ queue = <<>>

----------------------------------------------------------------------------
(* The clock *)

Tick ==
    /\ pc = "idle"
    /\ pc2 = "idle"
    /\ elapsed < MaxDays
    /\ now' = NextDay(now)
    /\ elapsed' = elapsed + 1
    /\ UNCHANGED <<schedules, transactions, pc, run, aux>>

----------------------------------------------------------------------------
(* The batch driver: select the due schedules of one frequency for today,  *)
(* then materialize each of them (specification, section 5)                *)

\* The ids of the schedules that have a Transaction created today
MaterializedToday ==
    { s.id : s \in { x \in schedules :
                        \E t \in transactions :
                            /\ t.scheduled_transaction_id = x.id
                            /\ date(t.created_at) = date(today) } }

\* The record of a run that starts now with the selector's result r
BatchRecord(f, r) ==
    [NoRun EXCEPT !.frequency_id = f, !.today = today, !.ok = r.ok,
                  !.selected = {s.id : s \in r.rows},
                  !.pending = {s.id : s \in r.rows},
                  !.before = Cardinality(transactions),
                  !.seen = MaterializedToday]

\* A selector call that deactivates the schedules it returns
StartBatch_deactivate(f) ==
    /\ pc = "idle"
    /\ LET r == get_scheduled_transactions_by_frequency(f, today)
       IN  /\ run' = BatchRecord(f, r)
           /\ pc' = IF r.ok THEN "materialize" ELSE "failed"
           /\ schedules' = (schedules \ r.rows) \cup { [s EXCEPT !.is_active = FALSE] : s \in r.rows }
    /\ UNCHANGED <<transactions, now, elapsed, aux>>

StartBatch(f) ==
    /\ pc = "idle"
    /\ LET r == get_scheduled_transactions_by_frequency(f, today)
       IN  /\ run' = BatchRecord(f, r)
           /\ pc' = IF r.ok THEN "materialize" ELSE "failed"
    /\ UNCHANGED <<schedules, transactions, now, elapsed, aux>>

\* materialize(schedule) that stamps the Transaction with the normalised today
NewTransaction_midnight(s) ==
    [scheduled_transaction_id |-> s.id, account_id |-> s.account_id,
     amount |-> s.amount, reference |-> s.reference, category_id |-> s.category_id,
     created_at |-> today]

\* materialize(schedule) builds a Transaction that copies amount, reference,
\* category and account of the schedule, links it to the schedule and is
\* created now; it has no id before it is flushed
NewTransaction(s) ==
    [scheduled_transaction_id |-> s.id, account_id |-> s.account_id,
     amount |-> s.amount, reference |-> s.reference, category_id |-> s.category_id,
     created_at |-> now]

\* The stored row of object o with primary key i
Row(o, i) ==
    [id |-> i, scheduled_transaction_id |-> o.scheduled_transaction_id,
     account_id |-> o.account_id, amount |-> o.amount, reference |-> o.reference,
     category_id |-> o.category_id, created_at |-> o.created_at]

----------------------------------------------------------------------------
(* app/repository.py, Repository.save and Repository.commit *)

\* save(obj) that keeps only the object added last
save_overwrite(session_, obj) == {obj}

\* save(obj): session.add(obj)
save(session_, obj) == session_ \cup {obj}

\* The primary key the store gives to the next row: one more than the
\* greatest key in use
NextId(store) ==
    IF store = {} THEN 1
    ELSE 1 + (CHOOSE i \in { t.id : t \in store } : \A t \in store : t.id <= i)

\* A flush that replaces the stored Transaction of the same schedule
Flush_upsert(store, objs) ==
    { t \in store : ~ \E o \in objs : o.scheduled_transaction_id = t.scheduled_transaction_id }
        \cup { Row(o, NextId(store)) : o \in objs }

RECURSIVE Flush(_, _)
\* The INSERTs of a commit: every object of the session becomes a row with
\* the next primary key
Flush(store, objs) ==
    IF objs = {} THEN store
    ELSE LET o == CHOOSE x \in objs : TRUE
         IN  Flush(store \cup {Row(o, NextId(store))}, objs \ {o})

\* commit() that writes whatever the store answers
commit_unchecked(store, session_, accepted) ==
    [ok |-> TRUE, rows |-> Flush(store, session_)]

\* commit() that catches the exception of a rejected write
commit_swallow(store, session_, accepted) ==
    [ok |-> TRUE, rows |-> IF accepted THEN Flush(store, session_) ELSE store]

\* commit(): session.commit(); the exception of a store that rejects the
\* write is not caught
commit(store, session_, accepted) ==
    IF accepted
    THEN [ok |-> TRUE, rows |-> Flush(store, session_)]
    ELSE [ok |-> FALSE, rows |-> store]

----------------------------------------------------------------------------
(* The materializer of the batch driver *)

\* materialize(s) on a store that accepts every write: save, then commit
Materialize(s) ==
    /\ pc = "materialize"
    /\ s.id \in run.pending
    /\ transactions' = commit(transactions, save(session, NewTransaction(s)), TRUE).rows
    /\ session' = {}
    /\ run' = [run EXCEPT !.pending = run.pending \ {s.id}]
    /\ UNCHANGED <<schedules, now, elapsed, pc, pc2, run2, io>>

\* The selector is run again for the same (frequency, today)
Rerun ==
    /\ \/ pc = "materialize" /\ run.pending = {}
       \/ pc = "failed"
    /\ run' = [run EXCEPT
                 !.rerun = get_scheduled_transactions_by_frequency(run.frequency_id, run.today)]
    /\ pc' = "done"
    /\ UNCHANGED <<schedules, transactions, now, elapsed, aux>>

Finish ==
    /\ pc = "done"
    /\ pc' = "idle"
    /\ run' = NoRun
    /\ UNCHANGED <<schedules, transactions, now, elapsed, aux>>

Next ==
    \/ Tick
    \/ \E f \in Frequency : StartBatch(f)
    \/ \E s \in schedules : Materialize(s)
    \/ Rerun
    \/ Finish

Spec == Init /\ [][Next]_vars

----------------------------------------------------------------------------
(* Properties *)

\* The dates the selector is asked about: yesterday, today and tomorrow
QueryDates == { PrevDay(today), today, NextDay(today) }

Rows(f, D) == get_scheduled_transactions_by_frequency(f, D).rows

\* A Transaction linked to schedule s whose creation day is the day of D
CreatedOn(s, D) ==
    \E t \in transactions :
        t.scheduled_transaction_id = s.id /\ date(t.created_at) = date(D)

\* C1: every schedule the selector returns for (f, D) is active and has
\* date_start <= D <= date_end.
InScopeInvariant ==
    \A f \in Frequency, D \in QueryDates :
        \A s \in Rows(f, D) :
            /\ DtLE(s.date_start, D)
            /\ DtLE(D, s.date_end)
            /\ s.is_active = TRUE

\* C1 witness: a batch run's selector call has returned a schedule.
InScopeWitness ==
    /\ pc = "materialize"
    /\ run.selected # {}
    /\ \E s \in Rows(run.frequency_id, run.today) : s.id \in run.selected

\* C2: a schedule with a linked Transaction created on day D is not returned
\* for (its frequency, D).
NoDuplicateInvariant ==
    \A s \in schedules, D \in QueryDates :
        CreatedOn(s, D) => s \notin Rows(s.frequency_id, D)

\* C2 witness: a schedule that was selected and materialized today is left
\* out when the selector is run again.
NoDuplicateWitness ==
    /\ pc = "done"
    /\ \E s \in schedules :
        /\ s.id \in run.selected
        /\ CreatedOn(s, run.today)
        /\ s \notin run.rerun.rows

\* C4: batch runs executed one at a time never leave two Transactions linked
\* to the same schedule with the same creation day.
AtMostOneOccurrencePerDay ==
    \A t1 \in transactions, t2 \in transactions :
        (/\ t1.scheduled_transaction_id = t2.scheduled_transaction_id
         /\ date(t1.created_at) = date(t2.created_at)) => t1 = t2

\* C4 witness: a later batch run of the same day skips a schedule that is in
\* scope and already has its Transaction of today.
AtMostOneOccurrenceWitness ==
    /\ pc = "materialize"
    /\ \E s \in schedules :
        /\ s.frequency_id = run.frequency_id
        /\ s.is_active
        /\ DtLE(s.date_start, run.today) /\ DtLE(run.today, s.date_end)
        /\ CreatedOn(s, run.today)
        /\ s.id \notin run.selected

\* The selector with only the condition "creation day = today" of the fixture
FixtureRows(f, D) ==
    { s \in schedules :
        /\ DtLE(s.date_start, D)
        /\ DtLE(D, s.date_end)
        /\ s.is_active = TRUE
        /\ s.frequency_id = f
        /\ fixture_transaction_exists_condition(s, D) }

\* C10: wherever the period start is defined it is not after today, and the
\* selector returns the schedules that the equality-only selector returns.
PeriodStartRedundant ==
    \A f \in Frequency, D \in QueryDates :
        LET p == get_period_start_date(f, D)
        IN  p.ok => /\ DtLE(p.value, D)
                    /\ Rows(f, D) = FixtureRows(f, D)

\* C10 witness: a WEEKLY, MONTHLY or YEARLY schedule with a defined period
\* start is left out of the second selector call because of today's Transaction.
PeriodStartRedundantWitness ==
    /\ pc = "done"
    /\ run.frequency_id \in {WEEKLY, MONTHLY, YEARLY}
    /\ run.rerun.ok
    /\ \E s \in schedules :
        /\ s.id \in run.selected
        /\ CreatedOn(s, run.today)
        /\ s \notin Rows(run.frequency_id, run.today)
        /\ Key(get_period_start_date(run.frequency_id, run.today).value) < Key(run.today)

\* C3: after get_due_schedules(f, T) and materialize of every returned
\* schedule, get_due_schedules(f, T) run again returns the empty list.
IdempotentRerun ==
    pc = "done" => (run.rerun.ok /\ run.rerun.rows = {})

\* C5: the selector completes for every frequency and every calendar date.
SelectorNeverFails ==
    \A f \in Frequency, D \in QueryDates :
        get_scheduled_transactions_by_frequency(f, D).ok

\* C6: an active schedule without a Transaction of today is returned on its
\* first and on its last day, and is not returned the day before its first
\* day or the day after its last day.
BoundaryDatesInclusive ==
    \A s \in schedules, D \in QueryDates :
        (s.is_active /\ ~CreatedOn(s, D)) =>
            /\ (s.date_start = D /\ DtLE(D, s.date_end)) => s \in Rows(s.frequency_id, D)
            /\ (s.date_end = D /\ DtLE(s.date_start, D)) => s \in Rows(s.frequency_id, D)
            /\ s.date_start = NextDay(D) => s \notin Rows(s.frequency_id, D)
            /\ s.date_end = PrevDay(D) => s \notin Rows(s.frequency_id, D)

\* The schedules that meet the five conditions of the selection predicate
DueSet(f, D) ==
    { s \in schedules :
        /\ DtLE(s.date_start, D)
        /\ DtLE(D, s.date_end)
        /\ s.is_active = TRUE
        /\ s.frequency_id = f
        /\ ~CreatedOn(s, D) }

\* C7: the selector returns exactly the schedules that meet the five
\* conditions, and omits none of them.
SelectorReturnsDueSet ==
    \A f \in Frequency, D \in QueryDates :
        /\ get_scheduled_transactions_by_frequency(f, D).ok
        /\ Rows(f, D) = DueSet(f, D)

\* C8: materializing schedule a leaves unchanged, for every other schedule b
\* and every frequency, whether b is returned as due today.
IsolationBetweenSchedules ==
    [][ \A a \in schedules :
          Materialize(a) =>
            \A b \in schedules \ {a}, f \in Frequency :
                (b \in Rows(f, today)) <=> (b \in Rows(f, today)') ]_vars

\* C8 witness: schedule a of the same account has its Transaction of today
\* and a different schedule b is returned as due today.
IsolationWitness ==
    /\ pc = "materialize"
    /\ \E a \in schedules, b \in schedules :
        /\ a.id # b.id
        /\ a.account_id = b.account_id
        /\ a.frequency_id = WEEKLY /\ b.frequency_id = DAILY
        /\ CreatedOn(a, today)
        /\ ~CreatedOn(b, today)
        /\ b.id \in run.pending
        /\ b \in Rows(b.frequency_id, today)

\* The month before the month of D, as (year, month)
MonthBefore(D) ==
    IF D.month = 1 THEN [year |-> D.year - 1, month |-> 12]
    ELSE [year |-> D.year, month |-> D.month - 1]

\* C9: the period start is T for ONCE and DAILY, T - 7 days for WEEKLY, the
\* same day-of-month in the month before T for MONTHLY (December of the
\* previous year when T is in January) and the same month and day one year
\* before T for YEARLY, wherever that calendar day exists.
FrequencyPolicyTable ==
    LET T == today
        mb == MonthBefore(T)
    IN  /\ get_period_start_date(ONCE, T) = [ok |-> TRUE, value |-> T]
        /\ get_period_start_date(DAILY, T) = [ok |-> TRUE, value |-> T]
        /\ get_period_start_date(WEEKLY, T) = [ok |-> TRUE, value |-> MinusDays(T, 7)]
        /\ ValidDate(mb.year, mb.month, T.day) =>
              get_period_start_date(MONTHLY, T) =
                  [ok |-> TRUE, value |-> DateTime(mb.year, mb.month, T.day, T.hour)]
        /\ ValidDate(T.year - 1, T.month, T.day) =>
              get_period_start_date(YEARLY, T) =
                  [ok |-> TRUE, value |-> DateTime(T.year - 1, T.month, T.day, T.hour)]

\* A Transaction linked to schedule s whose creation day lies in the period
\* that starts at period_start and ends on the day of D
CreatedInPeriod(s, period_start, D) ==
    \E t \in transactions :
        /\ t.scheduled_transaction_id = s.id
        /\ DtLE(period_start, Midnight(date(t.created_at)))
        /\ DtLE(Midnight(date(t.created_at)), D)

\* C11: wherever the period start is defined, a schedule is returned for D
\* exactly when it is in scope for D and has no linked Transaction created
\* between the period start of its frequency and D.
DueMeansNoOccurrenceInPeriod ==
    \A s \in schedules, D \in QueryDates :
        LET p == get_period_start_date(s.frequency_id, D)
        IN  p.ok =>
              (s \in Rows(s.frequency_id, D) <=>
                  /\ DtLE(s.date_start, D)
                  /\ DtLE(D, s.date_end)
                  /\ s.is_active = TRUE
                  /\ ~CreatedInPeriod(s, p.value, D))

----------------------------------------------------------------------------
(* A batch run that is interrupted and started again *)

\* The run stops after any number of its schedules were materialized
Interrupt ==
    /\ pc = "materialize"
    /\ pc' = "interrupted"
    /\ UNCHANGED <<schedules, transactions, now, elapsed, run, aux>>

\* The batch is run again for the same frequency and the same today
Restart ==
    /\ pc = "interrupted"
    /\ LET r == get_scheduled_transactions_by_frequency(run.frequency_id, run.today)
       IN  /\ run' = [BatchRecord(run.frequency_id, r) EXCEPT
                         !.today = run.today,
                         !.resumed = TRUE,
                         !.first = IF run.resumed THEN run.first ELSE run.selected,
                         !.left = run.pending]
           /\ pc' = IF r.ok THEN "materialize" ELSE "failed"
    /\ UNCHANGED <<schedules, transactions, now, elapsed, aux>>

NextInterrupt == Next \/ Interrupt \/ Restart

SpecInterrupt == Init /\ [][NextInterrupt]_vars

\* The number of Transactions linked to the schedule with id i and created on
\* the day of D
CountOn(i, D) ==
    Cardinality({ t \in transactions :
                    /\ t.scheduled_transaction_id = i
                    /\ date(t.created_at) = date(D) })

\* C12: a batch run started again after an interruption selects exactly the
\* schedules the interrupted run had not materialized yet, and when it has
\* finished every schedule selected by the first run has exactly one
\* Transaction created on the today of the run.
SafeRerunAfterInterruption ==
    run.resumed =>
        /\ run.ok
        /\ run.selected = run.left
        /\ (pc = "done" => \A i \in run.first : CountOn(i, run.today) = 1)

\* C12 witness: a resumed run has finished after the interrupted run had
\* materialized one of two selected schedules.
SafeRerunWitness ==
    /\ run.resumed
    /\ pc = "done"
    /\ run.left # {}
    /\ run.left # run.first

----------------------------------------------------------------------------
(* Two batch runs that overlap *)

\* A second batch run for the same frequency and the same today starts while
\* the first is running; its selector reads what has been committed so far
StartBatch2(f) ==
    /\ pc2 = "idle"
    /\ pc # "idle"
    /\ f = run.frequency_id
    /\ LET r == get_scheduled_transactions_by_frequency(f, today)
       IN  /\ run2' = BatchRecord(f, r)
           /\ pc2' = IF r.ok THEN "materialize" ELSE "failed"
    /\ UNCHANGED <<schedules, transactions, now, elapsed, pc, run, session, io>>

\* materialize(s) of the second run: save, then commit
Materialize2(s) ==
    /\ pc2 = "materialize"
    /\ s.id \in run2.pending
    /\ transactions' = commit(transactions, save(session, NewTransaction(s)), TRUE).rows
    /\ session' = {}
    /\ run2' = [run2 EXCEPT !.pending = run2.pending \ {s.id}]
    /\ UNCHANGED <<schedules, now, elapsed, pc, run, pc2, io>>

NextConcurrent ==
    \/ Tick
    \/ \E f \in Frequency : StartBatch(f)
    \/ \E s \in schedules : Materialize(s)
    \/ \E f \in Frequency : StartBatch2(f)
    \/ \E s \in schedules : Materialize2(s)

SpecConcurrent == Init /\ [][NextConcurrent]_vars

\* C13: while two batch runs for the same frequency and today overlap, no
\* schedule has two Transactions created on that day.
OverlappingRunsNoDuplicate ==
    pc2 # "idle" =>
        \A s \in schedules : CountOn(s.id, run2.today) <= 1

\* C13 (amended): a run does not select a schedule whose Transaction of today
\* was committed before its selector call; a schedule gets two Transactions
\* on one day only when both runs selected it before either wrote, and never
\* more than two.
OverlappingRunsSelectBeforeWrite ==
    /\ run.seen \cap run.selected = {}
    /\ run2.seen \cap run2.selected = {}
    /\ \A s \in schedules :
          /\ CountOn(s.id, today) <= 2
          /\ CountOn(s.id, today) = 2 =>
                /\ s.id \in run.selected \cap run2.selected
                /\ s.id \notin run2.seen

\* C13 witness: both runs selected a schedule before either wrote, and it has
\* two Transactions created today.
OverlappingRunsWitness ==
    \E s \in schedules :
        /\ s.id \in run.selected \cap run2.selected
        /\ CountOn(s.id, today) = 2

----------------------------------------------------------------------------
(* Two overlapping batch runs on a store with a unique index *)

\* A unique index on (scheduled_transaction_id, creation day): the store
\* accepts the objects when none of them repeats the key of a stored row
UniqueIndexAccepts(store, objs) ==
    \A o \in objs :
        ~ \E t \in store :
            /\ t.scheduled_transaction_id = o.scheduled_transaction_id
            /\ date(t.created_at) = date(o.created_at)

\* The result of materialize(s) on the indexed store: save, then commit
CommitIndexed(s) ==
    LET objs == save(session, NewTransaction(s))
    IN  commit(transactions, objs, UniqueIndexAccepts(transactions, objs))

\* materialize(s) of the first run; a rejected write ends the run in error
MaterializeIndexed(s) ==
    /\ pc = "materialize"
    /\ s.id \in run.pending
    /\ transactions' = CommitIndexed(s).rows
    /\ session' = {}
    /\ IF CommitIndexed(s).ok
       THEN /\ run' = [run EXCEPT !.pending = run.pending \ {s.id}]
            /\ pc' = pc
       ELSE /\ run' = [run EXCEPT !.error = "IntegrityError"]
            /\ pc' = "failed"
    /\ UNCHANGED <<schedules, now, elapsed, pc2, run2, io>>

\* materialize(s) of the second run
MaterializeIndexed2(s) ==
    /\ pc2 = "materialize"
    /\ s.id \in run2.pending
    /\ transactions' = CommitIndexed(s).rows
    /\ session' = {}
    /\ IF CommitIndexed(s).ok
       THEN /\ run2' = [run2 EXCEPT !.pending = run2.pending \ {s.id}]
            /\ pc2' = pc2
       ELSE /\ run2' = [run2 EXCEPT !.error = "IntegrityError"]
            /\ pc2' = "failed"
    /\ UNCHANGED <<schedules, now, elapsed, pc, run, io>>

NextIndexed ==
    \/ Tick
    \/ \E f \in Frequency : StartBatch(f)
    \/ \E s \in schedules : MaterializeIndexed(s)
    \/ \E f \in Frequency : StartBatch2(f)
    \/ \E s \in schedules : MaterializeIndexed2(s)

SpecIndexed == Init /\ [][NextIndexed]_vars

\* C14: with the unique index on (schedule, creation day) every step of two
\* overlapping batch runs leaves at most one Transaction per schedule and
\* day, and an insert for a schedule that already has its Transaction of
\* today adds no row and ends the inserting run with a persistence error.
UniqueIndexPreventsDuplicate ==
    [][ /\ \A s \in schedules : CountOn(s.id, today)' <= 1
        /\ \A s \in schedules :
              (CountOn(s.id, today) = 1 /\ (MaterializeIndexed(s) \/ MaterializeIndexed2(s)))
                  => /\ transactions' = transactions
                     /\ \/ (pc' = "failed" /\ run'.error = "IntegrityError")
                        \/ (pc2' = "failed" /\ run2'.error = "IntegrityError") ]_vars

\* C14 witness: the second run's insert for a schedule both runs selected
\* was rejected, and the schedule has one Transaction created today.
UniqueIndexWitness ==
    \E s \in schedules :
        /\ s.id \in run.selected \cap run2.selected
        /\ pc2 = "failed"
        /\ run2.error = "IntegrityError"
        /\ CountOn(s.id, today) = 1

----------------------------------------------------------------------------
(* Materializations of different schedules that run concurrently *)

\* First step of materialize(s): the new Transaction is added to the session
\* the concurrent materializations share
Save(s) ==
    /\ pc = "materialize"
    /\ s.id \in run.pending
    /\ session' = save(session, NewTransaction(s))
    /\ run' = [run EXCEPT !.pending = run.pending \ {s.id},
                          !.saved = run.saved \cup {s.id}]
    /\ UNCHANGED <<schedules, transactions, now, elapsed, pc, pc2, run2, io>>

\* Second step of materialize(s): commit, which writes whatever the session
\* holds at that moment
Commit(s) ==
    /\ pc = "materialize"
    /\ s.id \in run.saved
    /\ transactions' = commit(transactions, session, TRUE).rows
    /\ session' = {}
    /\ run' = [run EXCEPT !.saved = run.saved \ {s.id}]
    /\ UNCHANGED <<schedules, now, elapsed, pc, pc2, run2, io>>

\* Every materialization of the run has returned
Completed ==
    /\ pc = "materialize"
    /\ run.pending = {}
    /\ run.saved = {}

FinishParallel ==
    /\ Completed \/ pc = "failed"
    /\ pc' = "idle"
    /\ run' = NoRun
    /\ UNCHANGED <<schedules, transactions, now, elapsed, aux>>

NextParallel ==
    \/ Tick
    \/ \E f \in Frequency : StartBatch(f)
    \/ \E s \in schedules : Save(s)
    \/ \E s \in schedules : Commit(s)
    \/ FinishParallel

SpecParallel == Init /\ [][NextParallel]_vars

\* The Transactions stored since the run started, without their primary keys
NewObjects ==
    { [scheduled_transaction_id |-> t.scheduled_transaction_id,
       account_id |-> t.account_id, amount |-> t.amount,
       reference |-> t.reference, category_id |-> t.category_id,
       created_at |-> t.created_at] : t \in { x \in transactions : x.id > run.before } }

\* C15: however the save and commit steps of the materializations of distinct
\* due schedules interleave, when all have returned the store holds what
\* materializing them one after another gives: exactly one new Transaction
\* per selected schedule, and nothing else new.
ConcurrentMaterializeSameResult ==
    Completed =>
        /\ Cardinality(transactions) = run.before + Cardinality(run.selected)
        /\ NewObjects = { NewTransaction(s) : s \in { x \in schedules : x.id \in run.selected } }
        /\ \A i \in run.selected : CountOn(i, run.today) = 1

\* C15 witness: the concurrent materializations of two distinct due
\* schedules have all returned.
ConcurrentMaterializeWitness ==
    /\ Completed
    /\ Cardinality(run.selected) = 2
    /\ Cardinality(transactions) >= 2

----------------------------------------------------------------------------
(* The materializer: effect and frame *)

\* C16: materialize(s) adds exactly one Transaction to the store; it has the
\* amount, reference, category id and account id of the schedule, is linked
\* to the schedule, has the current time as creation timestamp and a primary
\* key no stored Transaction has.
MaterializeEffect ==
    [][ \A s \in schedules :
          Materialize(s) =>
              \E t \in transactions' :
                  /\ t \notin transactions
                  /\ transactions' = transactions \cup {t}
                  /\ Cardinality(transactions') = Cardinality(transactions) + 1
                  /\ t.amount = s.amount
                  /\ t.reference = s.reference
                  /\ t.category_id = s.category_id
                  /\ t.account_id = s.account_id
                  /\ t.scheduled_transaction_id = s.id
                  /\ t.created_at = now
                  /\ \A u \in transactions : u.id # t.id ]_vars

\* C16 witness: a Transaction with the values of its schedule, created at the
\* current time, is stored next to an older one.
MaterializeEffectWitness ==
    \E t \in transactions, s \in schedules :
        /\ t.scheduled_transaction_id = s.id
        /\ t.amount = s.amount
        /\ t.reference = s.reference
        /\ t.created_at = now
        /\ t.id = Cardinality(transactions)
        /\ t.id > 1

\* C17: no step of the engine changes a schedule, and no step changes or
\* deletes a stored Transaction.
MaterializeFrame ==
    [][ /\ schedules' = schedules
        /\ \A t \in transactions : t \in transactions' ]_vars

\* C17 witness: after a materialization, while an older Transaction is
\* stored, the schedule it was made from is still among the schedules and
\* still selected by the run.
MaterializeFrameWitness ==
    /\ pc = "materialize"
    /\ Cardinality(transactions) >= 2
    /\ \E s \in schedules :
          /\ s.id \in run.selected \ run.pending
          /\ s.is_active = TRUE
          /\ CountOn(s.id, today) = 1

----------------------------------------------------------------------------
(* materialize called directly, without the selector *)

\* A caller materializes a stored schedule without asking the selector first
MaterializeDirect(s) ==
    /\ pc = "idle"
    /\ Cardinality(transactions) < MaxCalls
    /\ transactions' = commit(transactions, save(session, NewTransaction(s)), TRUE).rows
    /\ session' = {}
    /\ UNCHANGED <<schedules, now, elapsed, pc, run, pc2, run2, io>>

NextDirect ==
    \/ \E f \in Frequency : StartBatch(f)
    \/ \E s \in schedules : Materialize(s)
    \/ FinishParallel
    \/ \E s \in schedules : MaterializeDirect(s)

SpecDirect == Init /\ [][NextDirect]_vars

\* C18: every direct call of materialize adds one more Transaction of today
\* for its schedule, whether or not one exists; a materialization that
\* follows a selector call of the same run leaves the schedule with exactly
\* one.
NoDuplicateCheckInMaterialize ==
    [][ \A s \in schedules :
          /\ MaterializeDirect(s) => CountOn(s.id, today)' = CountOn(s.id, today) + 1
          /\ Materialize(s) => CountOn(s.id, today)' = 1 ]_vars

\* C18 witness: a schedule materialized twice on the same day without a
\* selector call in between has two Transactions created today.
NoDuplicateCheckWitness ==
    \E s \in schedules :
        /\ pc = "idle"
        /\ CountOn(s.id, today) = 2
        /\ \E t1 \in transactions, t2 \in transactions :
              /\ t1.id # t2.id
              /\ t1.scheduled_transaction_id = s.id
              /\ t2.scheduled_transaction_id = s.id
              /\ t1.created_at = t2.created_at

----------------------------------------------------------------------------
(* Expiry of a schedule *)

\* The schedule's last day is before the day of D
ExpiredOn(s, D) == ~DtLE(D, s.date_end)

\* C21: no step clears is_active of a schedule, and after every step a
\* schedule whose date_end is before today is not returned by the selector
\* for today, is not selected by a run of today, and has no Transaction
\* created after its date_end.
ExpiryByDateEndOnly ==
    [][ /\ \A s \in schedules :
              \E n \in schedules' : n.id = s.id /\ n.is_active = s.is_active
        /\ \A s \in schedules' :
              ExpiredOn(s, today') =>
                  /\ s \notin Rows(s.frequency_id, today)'
                  /\ (pc' = "materialize" /\ run'.today = today') => s.id \notin run'.selected
                  /\ \A t \in transactions' :
                        t.scheduled_transaction_id = s.id =>
                            DtLE(Midnight(date(t.created_at)), s.date_end) ]_vars

\* C21 witness: an active schedule that was materialized on its last day is
\* expired today, and the batch run of today for its frequency did not
\* select it.
ExpiryWitness ==
    \E s \in schedules :
        /\ s.is_active = TRUE
        /\ ExpiredOn(s, today)
        /\ CountOn(s.id, s.date_end) = 1
        /\ pc = "materialize"
        /\ run.ok
        /\ run.today = today
        /\ run.frequency_id = s.frequency_id
        /\ s.id \notin run.selected

----------------------------------------------------------------------------
(* The clock, app/date_manager.py today() *)

\* The instants the clock is observed at: times of day from the first to the
\* last microsecond, on the last days of a year, of February and of a leap
\* February
ClockDays == { DateTime(2023, 12, 31, 0), DateTime(2024, 2, 28, 0), DateTime(2024, 2, 29, 0) }

TimesOfDay ==
    [hour : {0, 12, 23}, minute : {0, 59}, second : {0, 59}, microsecond : {0, 999999}]

At(d, t) ==
    [d EXCEPT !.hour = t.hour, !.minute = t.minute, !.second = t.second,
              !.microsecond = t.microsecond]

InitClock ==
    /\ \E d \in ClockDays, t \in TimesOfDay : now = At(d, t)
    /\ elapsed = 0
    /\ schedules = {}
    /\ transactions = {}
    /\ pc = "idle"
    /\ run = NoRun
    /\ session = {}
    /\ pc2 = "idle"
    /\ run2 = NoRun
    /\ response = NoResponse
    /\ queue = <<>>

\* Time passes within the day
LaterToday ==
    /\ \E t \in TimesOfDay :
          /\ ~DtLE(At(now, t), now)
          /\ now' = At(now, t)
    /\ UNCHANGED <<schedules, transactions, elapsed, pc, run, aux>>

\* Midnight passes
Tomorrow ==
    /\ elapsed < MaxDays
    /\ \E t \in TimesOfDay : now' = At(NextDay(now), t)
    /\ elapsed' = elapsed + 1
    /\ UNCHANGED <<schedules, transactions, pc, run, aux>>

\* A call of today(); the response keeps the instant of the call
CallToday ==
    /\ response' = [op |-> "today", at |-> now, value |-> today]
    /\ UNCHANGED <<schedules, transactions, now, elapsed, pc, run, session, pc2, run2, queue>>

NextClock == LaterToday \/ Tomorrow \/ CallToday

SpecClock == InitClock /\ [][NextClock]_vars

\* C22: the value of a call of today() has hour, minute, second and
\* microsecond 0 and the calendar day of the instant of the call; a call on
\* the same day as the last call returns the same value, and normalizing
\* the value again changes nothing.
TodayIsMidnightOfNow ==
    /\ today.hour = 0
    /\ today.minute = 0
    /\ today.second = 0
    /\ today.microsecond = 0
    /\ date(today) = date(now)
    /\ replace_midnight(today) = today
    /\ response.op = "today" =>
          /\ date(response.value) = date(response.at)
          /\ replace_midnight(response.value) = response.value
          /\ date(response.at) = date(now) => today = response.value

\* C22 witness: today() was called earlier on this day at another time of
\* day, with minute, second and microsecond not 0.
TodayWitness ==
    /\ response.op = "today"
    /\ date(response.at) = date(now)
    /\ response.at # now
    /\ response.at.microsecond # 0
    /\ now.minute # 0
    /\ now.hour # response.at.hour

----------------------------------------------------------------------------
(* app/services/scheduled_transactions.py *)

\* The users and their accounts: account 1 belongs to user 1, account 2 to
\* user 2; no account has id 3
Users == {1, 2}

Accounts == { [id |-> 1, user_id |-> 1], [id |-> 2, user_id |-> 2] }

AccountIds == {1, 2, 3}

\* repo.get(cls, instance_id): the row with that id, or None
get(rows, instance_id) ==
    IF \E r \in rows : r.id = instance_id
    THEN [found |-> TRUE, row |-> CHOOSE r \in rows : r.id = instance_id]
    ELSE [found |-> FALSE]

\* repo.save(list): session.add_all(list)
save_all(session_, objs) == session_ \cup { o : o \in objs }

\* repo.delete(obj): session.delete(obj), the row goes with the next commit
delete(session_, obj) == session_ \cup { [kind |-> "deleted", row |-> obj] }

\* delete_scheduled_transaction(current_user, transaction_id): the returned
\* value ("True", or "None" for a bare return) and the session after the call
delete_scheduled_transaction(session_, current_user, transaction_id) ==
    LET transaction == get(schedules, transaction_id)
    IN  IF ~transaction.found
        THEN [result |-> "None", session |-> session_]
        ELSE LET account == get(Accounts, transaction.row.account_id)
             IN  IF current_user # account.row.user_id
                 THEN [result |-> "None", session |-> session_]
                 ELSE [result |-> "True", session |-> delete(session_, transaction.row)]


\* models.TransactionInformation() with the attributes of the request
TransactionInformation(info) ==
    [kind |-> "TransactionInformation", amount |-> info.amount,
     reference |-> info.reference, category_id |-> info.category_id]

\* models.TransactionScheduled(...) of the request, for the account found
TransactionScheduled(info, account) ==
    [kind |-> "TransactionScheduled", frequency_id |-> info.frequency_id,
     date_start |-> info.date_start, date_end |-> info.date_end,
     information |-> TransactionInformation(info),
     account_id |-> account.id, offset_account_id |-> info.offset_account_id]

\* create_scheduled_transaction(user, transaction_information): the outcome
\* ("TransactionScheduled" for the returned object, "None", or the exception
\* raised) and the session after the call.  account.user_id of an account
\* that was not found is an AttributeError.
create_scheduled_transaction(session_, user, info) ==
    LET account == get(Accounts, info.account_id)
        saved == [result |-> "TransactionScheduled",
                  session |-> save_all(session_, { TransactionScheduled(info, account.row),
                                                   TransactionInformation(info) })]
    IN  IF ~account.found
        THEN [result |-> "AttributeError", session |-> session_]
        ELSE IF user # account.row.user_id
        THEN [result |-> "None", session |-> session_]
        ELSE IF info.offset_account_id # Null
        THEN LET offset_account == get(Accounts, info.offset_account_id)
             IN  IF ~offset_account.found
                 THEN [result |-> "None", session |-> session_]
                 ELSE IF user # offset_account.row.user_id
                 THEN [result |-> "Exception", session |-> session_]
                 ELSE saved
        ELSE saved

\* The pending objects of the session that are new scheduled transactions
PendingSchedules(session_) == { o \in session_ : o.kind = "TransactionScheduled" }

\* The stored row of a new scheduled transaction with primary key i
StoredSchedule(o, i) ==
    [id |-> i, frequency_id |-> o.frequency_id, date_start |-> o.date_start,
     date_end |-> o.date_end, is_active |-> TRUE, account_id |-> o.account_id,
     amount |-> o.information.amount, reference |-> o.information.reference,
     category_id |-> o.information.category_id,
     offset_account_id |-> o.offset_account_id]

RECURSIVE InsertSchedules(_, _)
InsertSchedules(store, objs) ==
    IF objs = {} THEN store
    ELSE LET o == CHOOSE x \in objs : TRUE
         IN  InsertSchedules(store \cup {StoredSchedule(o, NextId(store))}, objs \ {o})

\* session.commit() of the caller: the deleted rows go, the new ones get
\* their primary keys
FlushSchedules(store, session_) ==
    InsertSchedules(store \ { o.row : o \in { x \in session_ : x.kind = "deleted" } },
                    PendingSchedules(session_))

\* The requests the service is called with
ScheduleIds == {1, 2, 3}

Requests ==
    [account_id : AccountIds, offset_account_id : {Null} \cup AccountIds,
     frequency_id : {MONTHLY}, date_start : {today}, date_end : {NextDay(today)},
     amount : {100}, reference : {"scheduled_transaction_daily"}, category_id : {1}]

InitService ==
    /\ now = DateTime(2024, 2, 28, 12)
    /\ elapsed = 0
    /\ schedules = { ScheduleRow(1, DAILY, [date_start |-> today, date_end |-> NextDay(today)], TRUE, 1),
                     ScheduleRow(2, WEEKLY, [date_start |-> today, date_end |-> NextDay(today)], TRUE, 2) }
    /\ transactions = {}
    /\ pc = "idle"
    /\ run = NoRun
    /\ session = {}
    /\ pc2 = "idle"
    /\ run2 = NoRun
    /\ response = NoResponse
    /\ queue = <<>>

DeleteScheduledTransaction(u, i) ==
    /\ Cardinality(session) < MaxCalls
    /\ LET r == delete_scheduled_transaction(session, u, i)
       IN  /\ session' = r.session
           /\ response' = [op |-> "delete_scheduled_transaction", user |-> u,
                           request |-> i, result |-> r.result]
    /\ UNCHANGED <<schedules, transactions, now, elapsed, pc, run, pc2, run2, queue>>

CreateScheduledTransaction(u, info) ==
    /\ Cardinality(session) < MaxCalls
    /\ Cardinality(schedules) <= MaxCalls
    /\ LET r == create_scheduled_transaction(session, u, info)
       IN  /\ session' = r.session
           /\ response' = [op |-> "create_scheduled_transaction", user |-> u,
                           request |-> info, result |-> r.result]
    /\ UNCHANGED <<schedules, transactions, now, elapsed, pc, run, pc2, run2, queue>>

\* The caller commits the session
CommitService ==
    /\ session # {}
    /\ schedules' = FlushSchedules(schedules, session)
    /\ session' = {}
    /\ response' = [op |-> "commit"]
    /\ UNCHANGED <<transactions, now, elapsed, pc, run, pc2, run2, queue>>

NextService ==
    \/ \E u \in Users, i \in ScheduleIds : DeleteScheduledTransaction(u, i)
    \/ \E u \in Users, info \in Requests : CreateScheduledTransaction(u, info)
    \/ CommitService

SpecService == InitService /\ [][NextService]_vars

\* The user owns the account of the stored schedule with this id
OwnsSchedule(u, i) ==
    /\ get(schedules, i).found
    /\ get(Accounts, get(schedules, i).row.account_id).row.user_id = u

\* C23: delete_scheduled_transaction marks the schedule for deletion and
\* returns True when the schedule exists and the user owns its account;
\* otherwise it deletes nothing and returns False.
DeleteReturnsTrueOrFalse ==
    [][ \A u \in Users, i \in ScheduleIds :
          DeleteScheduledTransaction(u, i) =>
              IF OwnsSchedule(u, i)
              THEN /\ response'.result = "True"
                   /\ session' = delete(session, get(schedules, i).row)
              ELSE /\ response'.result = "False"
                   /\ session' = session ]_vars


\* The outcome the description of create_scheduled_transaction gives for a
\* request: None for another user's target account or a missing offset
\* account, an exception for another user's offset account, otherwise the
\* saved object
DescribedOutcome(u, info) ==
    LET account == get(Accounts, info.account_id)
        offset_account == get(Accounts, info.offset_account_id)
    IN  IF account.found /\ account.row.user_id # u THEN "None"
        ELSE IF info.offset_account_id # Null /\ ~offset_account.found THEN "None"
        ELSE IF info.offset_account_id # Null /\ offset_account.row.user_id # u THEN "Exception"
        ELSE "TransactionScheduled"

\* C24: create_scheduled_transaction returns None and saves nothing for a
\* target account of another user or a missing offset account, raises and
\* saves nothing for an offset account of another user, and otherwise adds
\* to the session one TransactionScheduled with the requested frequency_id,
\* date_start, date_end, account id and offset account id, together with
\* its TransactionInformation.
CreateOnlyForOwnedAccounts ==
    [][ \A u \in Users, info \in Requests :
          CreateScheduledTransaction(u, info) =>
              /\ response'.result = DescribedOutcome(u, info)
              /\ IF DescribedOutcome(u, info) = "TransactionScheduled"
                 THEN \E o \in PendingSchedules(session') :
                          /\ session' = session \cup {o, o.information}
                          /\ o.frequency_id = info.frequency_id
                          /\ o.date_start = info.date_start
                          /\ o.date_end = info.date_end
                          /\ o.account_id = info.account_id
                          /\ o.offset_account_id = info.offset_account_id
                          /\ o.information = TransactionInformation(info)
                 ELSE session' = session ]_vars

----------------------------------------------------------------------------
(* app/utils/file_utils.py, process_csv_file *)

\* endswith as a plausible slip: the suffix is looked for anywhere in the name
endswith_anywhere(str, suffix) ==
    \E i \in 1..Len(str) :
        i + Len(suffix) - 1 <= Len(str) /\ SubSeq(str, i, i + Len(suffix) - 1) = suffix

\* str.endswith(suffix), on strings as sequences of characters
endswith(str, suffix) ==
    /\ Len(str) >= Len(suffix)
    /\ SubSeq(str, Len(str) - Len(suffix) + 1, Len(str)) = suffix

CsvSuffix == <<".", "c", "s", "v">>

\* process_csv_file(wallet_id, file, current_user): the exception raised or
\* "None" for the normal return, whether file.read() was awaited, and the
\* queue of background tasks after the call
process_csv_file(queue_, wallet_id, file, current_user) ==
    IF ~endswith(file.filename, CsvSuffix)
    THEN [result |-> "HTTPException(status_code=400)", read |-> FALSE, queue |-> queue_]
    ELSE IF file.contents = <<>>
    THEN [result |-> "HTTPBadRequestException", read |-> TRUE, queue |-> queue_]
    ELSE [result |-> "None", read |-> TRUE,
          queue |-> Append(queue_, [task |-> "import_transactions_from_csv",
                                    args |-> <<current_user, wallet_id, file.contents>>])]

\* The uploads: names with and without the suffix, with the suffix inside,
\* in capitals, bare and empty; empty and non-empty contents
Filenames ==
    { <<"d", ".", "c", "s", "v">>, <<".", "c", "s", "v">>, <<"c", "s", "v">>,
      <<"d", ".", "t", "x", "t">>, <<"d", ".", "c", "s", "v", ".", "t", "x", "t">>,
      <<"d", ".", "C", "S", "V">>, <<>> }

Contents == { <<>>, <<"a">>, <<"a", "b">> }

Uploads == [filename : Filenames, contents : Contents]

WalletIds == {1, 2}

InitCsv ==
    /\ now = DateTime(2024, 2, 28, 12)
    /\ elapsed = 0
    /\ schedules = {}
    /\ transactions = {}
    /\ pc = "idle"
    /\ run = NoRun
    /\ session = {}
    /\ pc2 = "idle"
    /\ run2 = NoRun
    /\ response = NoResponse
    /\ queue = <<>>

ProcessCsvFile(wallet_id, file, current_user) ==
    /\ Len(queue) <= MaxCalls
    /\ LET r == process_csv_file(queue, wallet_id, file, current_user)
       IN  /\ queue' = r.queue
           /\ response' = [op |-> "process_csv_file", result |-> r.result, read |-> r.read]
    /\ UNCHANGED <<schedules, transactions, now, elapsed, pc, run, session, pc2, run2>>

NextCsv == \E w \in WalletIds, file \in Uploads, u \in Users : ProcessCsvFile(w, file, u)

SpecCsv == InitCsv /\ [][NextCsv]_vars

\* The name has at least four characters and the last four are . c s v
NameEndsInCsv(name) ==
    /\ Len(name) >= 4
    /\ name[Len(name) - 3] = "."
    /\ name[Len(name) - 2] = "c"
    /\ name[Len(name) - 1] = "s"
    /\ name[Len(name)] = "v"

\* C25: process_csv_file raises the 400 error without reading the content
\* when the file name does not end in .csv, raises the bad-request error
\* when the content is empty, and queues nothing in both cases; otherwise it
\* appends exactly one import_transactions_from_csv task with the user id,
\* the wallet id and the content.
CsvQueuedOnlyForNonEmptyCsv ==
    [][ \A w \in WalletIds, file \in Uploads, u \in Users :
          ProcessCsvFile(w, file, u) =>
              IF ~NameEndsInCsv(file.filename)
              THEN /\ response'.result = "HTTPException(status_code=400)"
                   /\ ~response'.read
                   /\ queue' = queue
              ELSE IF file.contents = <<>>
              THEN /\ response'.result = "HTTPBadRequestException"
                   /\ queue' = queue
              ELSE /\ response'.result = "None"
                   /\ Len(queue') = Len(queue) + 1
                   /\ SubSeq(queue', 1, Len(queue)) = queue
                   /\ queue'[Len(queue')].task = "import_transactions_from_csv"
                   /\ queue'[Len(queue')].args = <<u, w, file.contents>> ]_vars

\* C25 witness: after one upload was queued, an upload was refused and the
\* queue still holds the one task.
CsvWitness ==
    /\ Len(queue) = 1
    /\ response.op = "process_csv_file"
    /\ response.result # "None"

----------------------------------------------------------------------------
(* app/date_manager.py, get_last_day_of_month *)

\* dt + timedelta(days=n): OverflowError when the result is after year 9999
AddDays(dt, n) ==
    IF PlusDays(dt, n).year > 9999
    THEN [ok |-> FALSE, error |-> "OverflowError"]
    ELSE [ok |-> TRUE, value |-> PlusDays(dt, n)]

\* get_last_day_of_month(dt): the 28th plus 4 days lies in the next month;
\* going back by its day of month gives the last day of dt's month
get_last_day_of_month(dt) ==
    LET next_month == AddDays([dt EXCEPT !.day = 28], 4)
    IN  IF ~next_month.ok
        THEN [ok |-> FALSE, error |-> next_month.error]
        ELSE [ok |-> TRUE,
              value |-> MinusDays(next_month.value, next_month.value.day).day]

\* The dates asked about: every day of a common year, of a leap year and of
\* the last year a datetime can have
CalendarYears == {2023, 2024, 9999}

CalendarDates ==
    { DateTime(y, m, d, 12) : y \in CalendarYears, m \in 1..12, d \in 1..31 }

InitCalendar ==
    /\ now \in { dt \in CalendarDates : ValidDate(dt.year, dt.month, dt.day) }
    /\ elapsed = 0
    /\ schedules = {}
    /\ transactions = {}
    /\ pc = "idle"
    /\ run = NoRun
    /\ session = {}
    /\ pc2 = "idle"
    /\ run2 = NoRun
    /\ response = NoResponse
    /\ queue = <<>>

CallLastDayOfMonth ==
    /\ response' = [op |-> "get_last_day_of_month", request |-> now,
                    result |-> get_last_day_of_month(now)]
    /\ UNCHANGED <<schedules, transactions, now, elapsed, pc, run, session, pc2, run2, queue>>

NextCalendar == CallLastDayOfMonth

SpecCalendar == InitCalendar /\ [][NextCalendar]_vars

\* C26: for every date, get_last_day_of_month returns the number of days of
\* the date's month, a value in 28..31.
LastDayOfMonthIsMonthLength ==
    response.op = "get_last_day_of_month" =>
        /\ response.result.ok
        /\ response.result.value \in 28..31
        /\ response.result.value = DaysInMonth(response.request.year, response.request.month)

----------------------------------------------------------------------------
(* app/date_manager.py, get_datetime_from_timestamp *)

(* A timestamp argument is a whole number of millions of seconds, a number *)
(* beyond the range of the platform's time_t, or not a number.  A number   *)
(* of seconds is kept as value / per millions of seconds, so that the      *)
(* division by 1000 is exact.  A datetime is known by its instant, in      *)
(* thousands of seconds since the epoch.                                   *)

\* The first and the last instant fromtimestamp accepts, in thousands of
\* seconds: one day after datetime.min, and datetime.max
MinInstant == -62135510
MaxInstant == 253402300

Number(v) == [kind |-> "number", value |-> v, per |-> 1]

\* timestamp / 1000
DividedBy1000(x) ==
    IF x.kind = "number" THEN [x EXCEPT !.per = x.per * 1000] ELSE x

\* The number of seconds is one fromtimestamp accepts
InDatetimeRange(x) ==
    IF x.per = 1
    THEN x.value >= -((-MinInstant) \div 1000) /\ x.value <= MaxInstant \div 1000
    ELSE x.value >= MinInstant /\ x.value <= MaxInstant

\* datetime.fromtimestamp(x): TypeError for what is not a number,
\* OverflowError beyond time_t, ValueError for a year outside 1..9999
fromtimestamp(x) ==
    IF x.kind = "str" THEN [ok |-> FALSE, error |-> "TypeError"]
    ELSE IF x.kind = "huge" THEN [ok |-> FALSE, error |-> "OverflowError"]
    ELSE IF ~InDatetimeRange(x) THEN [ok |-> FALSE, error |-> "ValueError"]
    ELSE [ok |-> TRUE,
          value |-> [instant |-> IF x.per = 1 THEN x.value * 1000 ELSE x.value]]

None == [none |-> TRUE]

\* get_datetime_from_timestamp without the return in the finally clause: an
\* exception that is not handled leaves the function
get_datetime_from_timestamp_no_finally(timestamp) ==
    LET seconds == fromtimestamp(timestamp)
        milliseconds == fromtimestamp(DividedBy1000(timestamp))
    IN  IF seconds.ok THEN [raised |-> "none", date |-> seconds.value]
        ELSE IF seconds.error = "ValueError"
        THEN IF milliseconds.ok
             THEN [raised |-> "none", date |-> milliseconds.value]
             ELSE [raised |-> milliseconds.error, date |-> None]
        ELSE [raised |-> seconds.error, date |-> None]

\* get_datetime_from_timestamp(timestamp): try seconds; on ValueError try
\* milliseconds; the return in the finally clause discards any exception
\* that is still on its way and returns date, which is None then
get_datetime_from_timestamp(timestamp) ==
    LET seconds == fromtimestamp(timestamp)
        milliseconds == fromtimestamp(DividedBy1000(timestamp))
    IN  IF seconds.ok THEN [raised |-> "none", date |-> seconds.value]
        ELSE IF seconds.error = "ValueError"
        THEN IF milliseconds.ok
             THEN [raised |-> "none", date |-> milliseconds.value]
             ELSE [raised |-> "none", date |-> None]
        ELSE [raised |-> "none", date |-> None]

\* The arguments: seconds around the epoch, around now and around both ends
\* of the datetime range; milliseconds of now and around both ends of the
\* range; a number beyond time_t; a string
Timestamps ==
    { Number(v) : v \in (-62137 .. -62134) \cup (-40 .. 40) \cup (1690 .. 1710)
                        \cup (253400 .. 253405)
                        \cup {1700000, 253402300, 253402301, -62135510, -62135511,
                              2000000000, -2000000000} }
        \cup { [kind |-> "huge", value |-> 0, per |-> 1],
               [kind |-> "str", value |-> 0, per |-> 1] }

InitTimestamp ==
    /\ now = DateTime(2024, 2, 28, 12)
    /\ elapsed = 0
    /\ schedules = {}
    /\ transactions = {}
    /\ pc = "idle"
    /\ run = NoRun
    /\ session = {}
    /\ pc2 = "idle"
    /\ run2 = NoRun
    /\ response = NoResponse
    /\ queue = <<>>

CallDatetimeFromTimestamp(timestamp) ==
    /\ response' = [op |-> "get_datetime_from_timestamp", request |-> timestamp,
                    result |-> get_datetime_from_timestamp(timestamp)]
    /\ UNCHANGED <<schedules, transactions, now, elapsed, pc, run, session, pc2, run2, queue>>

NextTimestamp == \E timestamp \in Timestamps : CallDatetimeFromTimestamp(timestamp)

SpecTimestamp == InitTimestamp /\ [][NextTimestamp]_vars

\* C27: get_datetime_from_timestamp raises nothing; it returns the datetime
\* of the timestamp taken as seconds when that is in range, else the
\* datetime of the timestamp taken as milliseconds when that is in range,
\* else None.
TimestampSecondsThenMilliseconds ==
    response.op = "get_datetime_from_timestamp" =>
        LET x == response.request
            inSeconds == x.kind = "number" /\ x.value \in -62135 .. 253402
            inMilliseconds == x.kind = "number" /\ x.value \in MinInstant .. MaxInstant
        IN  /\ response.result.raised = "none"
            /\ response.result.date =
                  IF inSeconds THEN [instant |-> x.value * 1000]
                  ELSE IF inMilliseconds THEN [instant |-> x.value]
                  ELSE None

\* C27 witness: a timestamp that is out of range as seconds and as
\* milliseconds was given and None came back.
TimestampWitness ==
    /\ response.op = "get_datetime_from_timestamp"
    /\ response.request.kind = "number"
    /\ response.request.value > MaxInstant
    /\ response.result.date = None

----------------------------------------------------------------------------
(* The batch run once a day for every frequency *)

\* The batch of today for a frequency that has not had it yet
StartDaily(f) ==
    /\ pc = "idle"
    /\ f \notin run.done
    /\ LET r == get_scheduled_transactions_by_frequency(f, today)
       IN  /\ run' = [BatchRecord(f, r) EXCEPT !.done = run.done]
           /\ pc' = IF r.ok THEN "materialize" ELSE "failed"
    /\ UNCHANGED <<schedules, transactions, now, elapsed, aux>>

\* The batch has materialized all it selected, or has ended in an error
FinishDaily ==
    /\ Completed \/ pc = "failed"
    /\ pc' = "idle"
    /\ run' = [NoRun EXCEPT !.done = run.done \cup {run.frequency_id}]
    /\ UNCHANGED <<schedules, transactions, now, elapsed, aux>>

\* The batches of today have run for every frequency
DayDone == pc = "idle" /\ run.done = Frequency

\* The next day begins when every batch of today has run
TickDaily ==
    /\ DayDone
    /\ elapsed < MaxDays
    /\ now' = NextDay(now)
    /\ elapsed' = elapsed + 1
    /\ run' = NoRun
    /\ UNCHANGED <<schedules, transactions, pc, aux>>

NextDaily ==
    \/ \E f \in Frequency : StartDaily(f)
    \/ \E s \in schedules : Materialize(s)
    \/ FinishDaily
    \/ TickDaily

SpecDaily == Init /\ [][NextDaily]_vars

\* C28: when the batches of every day from the start to today have run, an
\* active schedule of any frequency has exactly one linked Transaction for
\* every such day inside its window and none for a day outside it.
DailyBatchOnePerDayOfWindow ==
    DayDone =>
        \A s \in schedules :
            s.is_active = TRUE =>
                \A k \in 0 .. elapsed :
                    LET D == MinusDays(today, k)
                    IN  CountOn(s.id, D) =
                            IF DtLE(s.date_start, D) /\ DtLE(D, s.date_end) THEN 1 ELSE 0

----------------------------------------------------------------------------
(* ONCE and DAILY *)

\* The condition under which a DAILY schedule is selected for D
DailyCondition(s, D) ==
    /\ DtLE(s.date_start, D)
    /\ DtLE(D, s.date_end)
    /\ s.is_active = TRUE
    /\ ~CreatedOn(s, D)

\* C29: the period start of ONCE is that of DAILY, a ONCE schedule is
\* returned exactly under the condition a DAILY schedule is returned under,
\* and a ONCE schedule materialized on an earlier day of its window is
\* returned again for a later day of the window.
OnceLikeDaily ==
    \A D \in QueryDates :
        /\ get_period_start_date(ONCE, D) = get_period_start_date(DAILY, D)
        /\ get_scheduled_transactions_by_frequency(ONCE, D).ok
        /\ \A s \in schedules :
              /\ s.frequency_id = DAILY => (s \in Rows(DAILY, D) <=> DailyCondition(s, D))
              /\ s.frequency_id = ONCE => (s \in Rows(ONCE, D) <=> DailyCondition(s, D))
              /\ (/\ s.frequency_id = ONCE
                  /\ CreatedOn(s, PrevDay(D))
                  /\ DailyCondition(s, D)) => s \in Rows(ONCE, D)

\* C29 witness: a ONCE schedule that was materialized yesterday is selected
\* by the batch run of today.
OnceLikeDailyWitness ==
    \E s \in schedules :
        /\ s.frequency_id = ONCE
        /\ CountOn(s.id, PrevDay(today)) = 1
        /\ pc = "materialize"
        /\ run.today = today
        /\ run.frequency_id = ONCE
        /\ s.id \in run.selected

----------------------------------------------------------------------------
(* Transactions created by hand *)

\* A Transaction that no schedule produced: its link is not set
ManualTransaction(acc, created) ==
    [scheduled_transaction_id |-> Null, account_id |-> acc, amount |-> 100,
     reference |-> "manual", category_id |-> 1, created_at |-> created]

ManualTransactions == { t \in transactions : t.scheduled_transaction_id = Null }

\* The primary keys a Transaction added by hand can get
ManualIds == {1, 2}

\* Between two batch runs a user adds a Transaction by hand, dated today or
\* yesterday
AddManual(acc, created) ==
    /\ pc = "idle"
    /\ NextId(transactions) \in ManualIds
    /\ transactions' = commit(transactions, save(session, ManualTransaction(acc, created)), TRUE).rows
    /\ session' = {}
    /\ UNCHANGED <<schedules, now, elapsed, pc, run, pc2, run2, io>>

\* Between two batch runs a user removes a Transaction that was added by hand
RemoveManual(t) ==
    /\ pc = "idle"
    /\ t \in ManualTransactions
    /\ transactions' = transactions \ {t}
    /\ UNCHANGED <<schedules, now, elapsed, pc, run, session, pc2, run2, io>>

NextManual ==
    \/ \E f \in Frequency : StartBatch(f)
    \/ \E s \in schedules : Materialize(s)
    \/ FinishParallel
    \/ \E acc \in {1, 2}, created \in {PrevDay(now), now} : AddManual(acc, created)
    \/ \E t \in transactions : RemoveManual(t)

\* An active schedule of any frequency on account 1 and a DAILY one on
\* account 2, both in their window today and tomorrow
InitManual ==
    /\ now \in StartDates
    /\ elapsed = 0
    /\ \E f \in Frequency :
          schedules = { ScheduleRow(1, f, [date_start |-> today, date_end |-> NextDay(today)], TRUE, 1),
                        ScheduleRow(2, DAILY, [date_start |-> today, date_end |-> NextDay(today)], TRUE, 2) }
    /\ transactions = {}
    /\ pc = "idle"
    /\ run = NoRun
    /\ session = {}
    /\ pc2 = "idle"
    /\ run2 = NoRun
    /\ response = NoResponse
    /\ queue = <<>>

SpecManual == InitManual /\ [][NextManual]_vars

\* C30: adding or removing a Transaction whose link to a schedule is not
\* set changes the selector's result for no frequency and no date.
ManualTransactionsNeverBlock ==
    [][ ((\E acc \in {1, 2}, created \in {PrevDay(now), now} : AddManual(acc, created))
            \/ (\E t \in transactions : RemoveManual(t))) =>
          \A f \in Frequency, D \in QueryDates :
              get_scheduled_transactions_by_frequency(f, D)'
                  = get_scheduled_transactions_by_frequency(f, D) ]_vars

\* C30 witness: with a hand-made Transaction of today stored for its
\* account, the batch run of today has selected a schedule.
ManualWitness ==
    \E s \in schedules, t \in ManualTransactions :
        /\ t.account_id = s.account_id
        /\ date(t.created_at) = date(today)
        /\ pc = "materialize"
        /\ run.before >= 1
        /\ s.id \in run.selected

=============================================================================
